---- MODULE Spec2Model ----
(***************************************************************************)
(* Verification model of the KBMOD post-processing pipeline                *)
(* (src/analysis/analysis_utils.py): Interface.load_results,               *)
(* PostProcess.apply_kalman_filter / _return_indices / _kalman_filter /    *)
(* _compute_lh, PostProcess.apply_stamp_filter / _stamp_filter_parallel    *)
(* and PostProcess.apply_clustering / _cluster_results.                    *)
(*                                                                         *)
(* Numbers.  numpy works on IEEE doubles.  The model computes on exact     *)
(* rationals extended with +inf, -inf and nan, following the IEEE rules    *)
(* for the non-finite cases (x/0, inf-inf, inf*0, nan propagation, nan     *)
(* comparing false).  Rounding is not modelled.  Integers of any size are  *)
(* kept as sequences of base-10000 limbs, because the masking sentinels    *)
(* of the code (1e9, 9999999) overflow 32-bit products.                    *)
(***************************************************************************)
EXTENDS Integers, Sequences, FiniteSets, TLC

(***************************************************************************)
(* With(v, F) is F(v) with v evaluated once, before F is applied: the      *)
(* value of an intermediate result, as a local variable of the code holds  *)
(* it.                                                                     *)
(***************************************************************************)
With(v, F(_)) == CHOOSE r \in {F(x) : x \in {v}} : TRUE
With2(v, w, F(_, _)) == CHOOSE r \in {F(x, y) : x \in {v}, y \in {w}} : TRUE
With3(u, v, w, F(_, _, _)) ==
    CHOOSE r \in {F(x, y, z) : x \in {u}, y \in {v}, z \in {w}} : TRUE

(***************************************************************************)
(* Unbounded naturals: little-endian limbs, no leading zero limb, 0 = <<>> *)
(***************************************************************************)
Base == 10000

RECURSIVE NatToBig(_)
NatToBig(n0) ==
    With(n0, LAMBDA n : IF n = 0 THEN <<>> ELSE <<n % Base>> \o NatToBig(n \div Base))

BigLimb(a, i) == IF i <= Len(a) THEN a[i] ELSE 0

RECURSIVE BigTrim(_)
BigTrim(a0) ==
    With(a0, LAMBDA a :
        IF Len(a) = 0 THEN a
        ELSE IF a[Len(a)] = 0 THEN BigTrim(SubSeq(a, 1, Len(a) - 1)) ELSE a)

RECURSIVE BigAddC(_, _, _, _)
BigAddC(a, b, i, c) ==
    IF i > Len(a) /\ i > Len(b)
    THEN IF c = 0 THEN <<>> ELSE <<c>>
    ELSE With2(BigLimb(a, i) + BigLimb(b, i) + c, i + 1, LAMBDA s, j :
             <<s % Base>> \o BigAddC(a, b, j, s \div Base))

BigAdd(a0, b0) == With2(a0, b0, LAMBDA a, b : BigAddC(a, b, 1, 0))

\* a - b for a >= b
RECURSIVE BigSubC(_, _, _, _)
BigSubC(a, b, i, c) ==
    IF i > Len(a) THEN <<>>
    ELSE With2(a[i] - BigLimb(b, i) - c, i + 1, LAMBDA s, j :
             IF s < 0 THEN <<s + Base>> \o BigSubC(a, b, j, 1)
                      ELSE <<s>> \o BigSubC(a, b, j, 0))

BigSub(a0, b0) == With2(a0, b0, LAMBDA a, b : BigTrim(BigSubC(a, b, 1, 0)))

\* -1, 0, 1 as a < b, a = b, a > b
RECURSIVE BigCmpAt(_, _, _)
BigCmpAt(a, b, i) ==
    IF i = 0 THEN 0
    ELSE IF a[i] < b[i] THEN -1
    ELSE IF a[i] > b[i] THEN 1
    ELSE With(i - 1, LAMBDA j : BigCmpAt(a, b, j))

BigCmp(a0, b0) ==
    With2(a0, b0, LAMBDA a, b :
        IF Len(a) < Len(b) THEN -1
        ELSE IF Len(a) > Len(b) THEN 1
        ELSE BigCmpAt(a, b, Len(a)))

RECURSIVE BigMulSmall(_, _, _, _)
BigMulSmall(a, m, i, c) ==
    IF i > Len(a)
    THEN IF c = 0 THEN <<>> ELSE <<c>>
    ELSE With2(a[i] * m + c, i + 1, LAMBDA s, j :
             <<s % Base>> \o BigMulSmall(a, m, j, s \div Base))

RECURSIVE BigMulAt(_, _, _)
BigMulAt(a, b, j) ==
    IF j > Len(b) THEN <<>>
    ELSE With2(BigMulAt(a, b, j + 1),
               IF b[j] = 0 THEN <<>> ELSE BigMulSmall(a, b[j], 1, 0),
               LAMBDA rest, row :
                   BigAdd(row, IF Len(rest) = 0 THEN <<>> ELSE <<0>> \o rest))

BigMul(a0, b0) ==
    With2(a0, b0, LAMBDA a, b :
        IF Len(a) = 0 \/ Len(b) = 0 THEN <<>> ELSE BigMulAt(a, b, 1))

BigOne == <<1>>

RECURSIVE BigProd(_)
BigProd(fs0) ==
    With(fs0, LAMBDA fs :
        IF Len(fs) = 0 THEN BigOne ELSE BigMul(fs[1], BigProd(Tail(fs))))

(***************************************************************************)
(* Factor bags: a positive integer kept as a sequence of factors > 1, so   *)
(* that equal factors of a numerator and a denominator cancel without a    *)
(* gcd.  <<>> is the empty product, 1.                                     *)
(***************************************************************************)
BagHas(fs, f) == \E i \in 1..Len(fs) : fs[i] = f

RECURSIVE BagRemove(_, _)
BagRemove(fs0, f0) ==
    With2(fs0, f0, LAMBDA fs, f :
        IF Len(fs) = 0 THEN fs
        ELSE IF fs[1] = f THEN Tail(fs) ELSE <<fs[1]>> \o BagRemove(Tail(fs), f))

RECURSIVE BagInter(_, _)
BagInter(a0, b0) ==
    With2(a0, b0, LAMBDA a, b :
        IF Len(a) = 0 \/ Len(b) = 0 THEN <<>>
        ELSE IF BagHas(b, a[1])
             THEN <<a[1]>> \o BagInter(Tail(a), BagRemove(b, a[1]))
             ELSE BagInter(Tail(a), b))

RECURSIVE BagDiff(_, _)
BagDiff(a0, b0) ==
    With2(a0, b0, LAMBDA a, b :
        IF Len(b) = 0 THEN a ELSE BagDiff(BagRemove(a, b[1]), Tail(b)))

Factors(x0) == With(x0, LAMBDA x : IF x = BigOne THEN <<>> ELSE <<x>>)

(***************************************************************************)
(* Doubles: [k, s, n, d] with k = "fin" (the rational s * n / d, s in      *)
(* {-1,0,1}), k = "inf" (s = 1 or -1) or k = "nan".                        *)
(***************************************************************************)
NaN  == [k |-> "nan", s |-> 0, n |-> <<>>, d |-> <<>>]
Inf(sg) == [k |-> "inf", s |-> sg, n |-> <<>>, d |-> <<>>]
Zero == [k |-> "fin", s |-> 0, n |-> <<>>, d |-> <<>>]

Fin(sg0, n0, d0) ==
    With3(sg0, n0, d0, LAMBDA sg, n, d :
        IF sg = 0 THEN Zero
        ELSE With(BagInter(n, d), LAMBDA c :
                 [k |-> "fin", s |-> sg, n |-> BagDiff(n, c), d |-> BagDiff(d, c)]))

Sgn(i) == IF i > 0 THEN 1 ELSE IF i < 0 THEN -1 ELSE 0
Abs(i) == IF i < 0 THEN -i ELSE i

\* the double p / q of two integers, q # 0
Ratio(p0, q0) ==
    With2(p0, q0, LAMBDA p, q :
        Fin(Sgn(p) * Sgn(q), Factors(NatToBig(Abs(p))), Factors(NatToBig(Abs(q)))))

FromInt(p) == Ratio(p, 1)

IsNaN(x) == x.k = "nan"
IsFin(x) == x.k = "fin"

XNeg(x) == [x EXCEPT !.s = -@]
XAbs(x) == [x EXCEPT !.s = IF @ = 0 THEN 0 ELSE 1]

\* finite + finite
FinAdd(x0, y0) ==
    With2(x0, y0, LAMBDA x, y :
        IF x.s = 0 THEN y
        ELSE IF y.s = 0 THEN x
        ELSE With(BagInter(x.d, y.d), LAMBDA c :
             With2(BagDiff(x.d, c), BagDiff(y.d, c), LAMBDA rx, ry :
             With2(BigMul(BigProd(x.n), BigProd(ry)),
                   BigMul(BigProd(y.n), BigProd(rx)), LAMBDA a, b :
             With2(BigCmp(a, b), c \o rx \o ry, LAMBDA cm, den :
                 IF x.s = y.s THEN Fin(x.s, Factors(BigAdd(a, b)), den)
                 ELSE IF cm = 0 THEN Zero
                 ELSE IF cm > 0 THEN Fin(x.s, Factors(BigSub(a, b)), den)
                 ELSE Fin(y.s, Factors(BigSub(b, a)), den))))))

XAdd(x0, y0) ==
    With2(x0, y0, LAMBDA x, y :
        IF IsNaN(x) \/ IsNaN(y) THEN NaN
        ELSE IF x.k = "inf" THEN (IF y.k = "inf" /\ y.s # x.s THEN NaN ELSE x)
        ELSE IF y.k = "inf" THEN y
        ELSE FinAdd(x, y))

XSub(x, y) == XAdd(x, XNeg(y))

XMul(x0, y0) ==
    With2(x0, y0, LAMBDA x, y :
        IF IsNaN(x) \/ IsNaN(y) THEN NaN
        ELSE IF x.k = "inf" \/ y.k = "inf"
             THEN (IF x.s = 0 \/ y.s = 0 THEN NaN ELSE Inf(x.s * y.s))
        ELSE Fin(x.s * y.s, x.n \o y.n, x.d \o y.d))

\* x / y; a zero divisor is +0 (the sums that vanish in the filter are +0)
XDiv(x0, y0) ==
    With2(x0, y0, LAMBDA x, y :
        IF IsNaN(x) \/ IsNaN(y) THEN NaN
        ELSE IF y.k = "inf" THEN (IF x.k = "inf" THEN NaN ELSE Zero)
        ELSE IF x.k = "inf" THEN Inf(IF y.s = 0 THEN x.s ELSE x.s * y.s)
        ELSE IF y.s = 0 THEN (IF x.s = 0 THEN NaN ELSE Inf(x.s))
        ELSE Fin(x.s * y.s, x.n \o y.d, x.d \o y.n))

\* the sign of x - y for finite x, y
FinCmp(x, y) == FinAdd(x, XNeg(y)).s

\* x < y as IEEE compares: false when either is nan
XLt(x0, y0) ==
    With2(x0, y0, LAMBDA x, y :
        IF IsNaN(x) \/ IsNaN(y) THEN FALSE
        ELSE IF x.k = "inf" THEN x.s = -1 /\ ~(y.k = "inf" /\ y.s = -1)
        ELSE IF y.k = "inf" THEN y.s = 1
        ELSE FinCmp(x, y) < 0)

\* x ** 0.5 is kept as the pair it comes from; |a| / (p ** 0.5) < c decided
\* exactly: pow(p, .5) is nan for p < 0, +0 for p = 0, +inf for p = +-inf.
\* (A numpy that takes the square root instead gives nan for -inf; a -inf
\* variance comes from an infinite gain K, which makes a infinite or nan, so
\* the comparison is false either way.)
AbsOverRootLt(a0, p0, c0) ==
    With3(a0, p0, c0, LAMBDA a, p, c :
        IF IsNaN(a) \/ IsNaN(p) THEN FALSE
        ELSE IF p.k = "inf" THEN a.k = "fin"
        ELSE IF p.s <= 0 THEN FALSE
        ELSE IF a.k = "inf" THEN FALSE
        ELSE FinCmp(XMul(a, a), XMul(XMul(c, c), p)) < 0)

(***************************************************************************)
(* A likelihood sum(psi) / sqrt(sum(phi)) is kept as the pair [S, Phi] of  *)
(* the two sums; a plain number L is [S |-> L, Phi |-> 1].                 *)
(***************************************************************************)
RECURSIVE SumSeq(_)
SumSeq(q0) == With(q0, LAMBDA q : IF Len(q) = 0 THEN 0 ELSE q[1] + SumSeq(Tail(q)))

Plain(L) == [S |-> L, Phi |-> 1]

\* "nan", "pinf", "ninf" or "fin": sqrt of a negative is nan, x/0 is +-inf, 0/0 nan
LhKind(a) ==
    IF a.Phi < 0 THEN "nan"
    ELSE IF a.Phi = 0 THEN (IF a.S = 0 THEN "nan" ELSE IF a.S > 0 THEN "pinf" ELSE "ninf")
    ELSE "fin"

\* a < b as IEEE compares
LhLt(a0, b0) ==
    With2(a0, b0, LAMBDA a, b :
        With2(LhKind(a), LhKind(b), LAMBDA ka, kb :
            IF ka = "nan" \/ kb = "nan" THEN FALSE
            ELSE IF ka = "pinf" \/ kb = "ninf" THEN FALSE
            ELSE IF ka = "ninf" \/ kb = "pinf" THEN TRUE
            ELSE IF Sgn(a.S) # Sgn(b.S) THEN Sgn(a.S) < Sgn(b.S)
            ELSE IF a.S > 0 THEN a.S * a.S * b.Phi < b.S * b.S * a.Phi
            ELSE a.S * a.S * b.Phi > b.S * b.S * a.Phi))

(***************************************************************************)
(* PostProcess._compute_lh                                                 *)
(***************************************************************************)
ComputeLh(psi_values, phi_values) ==
    [S |-> SumSeq(psi_values), Phi |-> SumSeq(phi_values)]

(***************************************************************************)
(* PostProcess._kalman_filter                                              *)
(***************************************************************************)
ProcessNoise == 1

RECURSIVE KalmanLoop(_, _, _, _, _)
KalmanLoop(obs, R, k, xhat, P) ==
    IF k > Len(obs) THEN [xhat |-> xhat, P |-> P]
    ELSE With2(xhat[k - 1], XAdd(P[k - 1], FromInt(ProcessNoise)), LAMBDA xhatminus, Pminus :
         With(XDiv(Pminus, XAdd(Pminus, R[k])), LAMBDA K :
         With3(Append(xhat, XAdd(xhatminus, XMul(K, XSub(obs[k], xhatminus)))),
               Append(P, XMul(XSub(FromInt(1), K), Pminus)),
               k + 1, LAMBDA xhat_k, P_k, k_next :
             KalmanLoop(obs, R, k_next, xhat_k, P_k))))

KalmanFilter(obs0, var0) ==
    With2(obs0, var0, LAMBDA obs, var : KalmanLoop(obs, var, 2, <<obs[1]>>, <<var[1]>>))

(***************************************************************************)
(* PostProcess._return_indices.  Indices are 0-based as in the code; a     *)
(* returned value that the code leaves as [] is <<>>, a present one <<v>>. *)
(***************************************************************************)
MaskedPhi == 1000000000
InvFluxFloor == -999
InvFluxMask == 9999999
SigmaCut == 5

Reverse(q0) == With(q0, LAMBDA q : [i \in 1..Len(q) |-> q[Len(q) + 1 - i]])

Reject == [val_on |-> <<>>, idx |-> <<-1>>, new_lh |-> <<>>]

\* np.min(kalman_error) < 0.  (np.min is nan as soon as one entry is nan)
MinBelowZero(P0) ==
    With(P0, LAMBDA P :
        /\ \A j \in 1..Len(P) : ~IsNaN(P[j])
        /\ \E j \in 1..Len(P) : XLt(P[j], Zero))

\* every index kept, whatever its deviation
KeepIdxAll(kf0, fluxes0) == [j \in 1..Len(fluxes0) |-> j - 1]

\* np.where(np.abs(kalman_flux - fluxes) / kalman_error**.5 < 5.)[0]
KeepIdx(kf0, fluxes0) ==
    With2(kf0, fluxes0, LAMBDA kf, fluxes :
        LET Ok(j) == AbsOverRootLt(XAbs(XSub(kf.xhat[j + 1], fluxes[j + 1])),
                                   kf.P[j + 1], FromInt(SigmaCut))
        IN  SelectSeq([j \in 1..Len(fluxes) |-> j - 1], Ok))

Pick(q0, idx0) == With2(q0, idx0, LAMBDA q, idx : [j \in 1..Len(idx) |-> q[idx[j] + 1]])

\* masked_phi_values, flux_vals, flux_idx, fluxes, f_var of lines 605-614
MaskedPhiValues(phi_values0) ==
    With(phi_values0, LAMBDA phi_values :
        [i \in 1..Len(phi_values) |->
            IF phi_values[i] = 0 THEN MaskedPhi ELSE phi_values[i]])

FluxVals(psi_values0, phi_values0) ==
    With2(psi_values0, MaskedPhiValues(phi_values0), LAMBDA psi_values, masked_phi_values :
        [i \in 1..Len(psi_values) |-> Ratio(psi_values[i], masked_phi_values[i])])

FluxIdx(psi_values, phi_values) ==
    With(FluxVals(psi_values, phi_values), LAMBDA flux_vals :
        LET NonZero(i) == flux_vals[i + 1].s # 0
        IN  SelectSeq([i \in 1..Len(flux_vals) |-> i - 1], NonZero))

FVar(phi_values, flux_idx) ==
    With(Pick(MaskedPhiValues(phi_values), flux_idx), LAMBDA masked :
        With([j \in 1..Len(masked) |->
                 IF masked[j] < InvFluxFloor THEN InvFluxMask ELSE masked[j]],
             LAMBDA inv_flux : [j \in 1..Len(masked) |-> Ratio(1, inv_flux[j])]))

\* second pass: the filter on the reversed samples, lines 628-629
BackwardPass(fluxes, f_var) == KalmanFilter(Reverse(fluxes), Reverse(f_var))

\* deviations of the second pass against the reversed samples, lines 632-635
KeepIdxBackUnreversed(bwd, fluxes) == KeepIdx(bwd, fluxes)

KeepIdxBack(bwd, fluxes) == KeepIdx(bwd, Reverse(fluxes))

\* the backward pass's positions used without reflecting them (line 643)
ChosenIdxUnreflected(flux_idx0, keep_idx0, keep_idx_back0) ==
    With3(flux_idx0, keep_idx0, keep_idx_back0, LAMBDA flux_idx, keep_idx, keep_idx_back :
        IF Len(keep_idx) >= Len(keep_idx_back)
        THEN Pick(flux_idx, keep_idx)
        ELSE Pick(flux_idx, keep_idx_back))

\* lines 637-647: the larger set (forward on a tie), as original curve indices
ChosenIdx(flux_idx0, keep_idx0, keep_idx_back0) ==
    With3(flux_idx0, keep_idx0, keep_idx_back0, LAMBDA flux_idx, keep_idx, keep_idx_back :
        LET reverse_idx == [j \in 1..Len(keep_idx_back) |->
                               Len(flux_idx) - 1 - keep_idx_back[j]]
        IN  IF Len(keep_idx) >= Len(keep_idx_back)
            THEN Pick(flux_idx, keep_idx)
            ELSE Pick(flux_idx, reverse_idx))

ReturnIndices(psi_values0, phi_values0, val_on0) ==
    With3(psi_values0, phi_values0, val_on0, LAMBDA psi_values, phi_values, val_on :
    With(FluxIdx(psi_values, phi_values), LAMBDA flux_idx :
        IF Len(flux_idx) < 2 THEN Reject
        ELSE
    With2(Pick(FluxVals(psi_values, phi_values), flux_idx), FVar(phi_values, flux_idx),
          LAMBDA fluxes, f_var :
    With(KalmanFilter(fluxes, f_var), LAMBDA fwd :
        IF MinBelowZero(fwd.P) THEN Reject
        ELSE
    With(BackwardPass(fluxes, f_var), LAMBDA bwd :
        IF MinBelowZero(bwd.P) THEN Reject
        ELSE
    With(ChosenIdx(flux_idx, KeepIdx(fwd, fluxes), KeepIdxBack(bwd, fluxes)), LAMBDA chosen :
        [val_on |-> <<val_on>>, idx |-> chosen,
         new_lh |-> <<ComputeLh(Pick(psi_values, chosen), Pick(phi_values, chosen))>>]))))))

(***************************************************************************)
(* State                                                                   *)
(***************************************************************************)
VARIABLES
    search,        \* the search engine: its ranked results
    lh_level,      \* minimum likelihood of the run
    chunk_size,    \* load_results' batch size
    pc,            \* position of the run
    ld,            \* locals of load_results
    requests,      \* history: start ranks passed to search.get_results
    examined,      \* history: global ranks whose likelihood was examined
    keep,          \* the results dictionary handed from stage to stage
    pool,          \* the multiprocessing pool: per task, <<>> or <<result>>
    lh_sorted_idx, \* apply_stamp_filter's sorted ordinals
    arg,           \* _return_indices called alone: its arguments
    res            \* _return_indices called alone: <<>> or <<returned tuple>>

vars == <<search, lh_level, chunk_size, pc, ld, requests, examined, keep, pool,
          lh_sorted_idx, arg, res>>

(***************************************************************************)
(* Bounds and input sets                                                   *)
(***************************************************************************)
MaxTraj == 3      \* most trajectories the engine ranks
MaxChunk == 2     \* largest chunk_size tried
MaxLen == 3       \* longest curve pair given to _return_indices alone
PsiVals == {0, 1, 40}
PhiVals == {-2, 0, 1}
Ordinals == {0, 2}
LhLevels == {2, 5}

\* the spike scenario: 10 samples, unit phi, one spike at index 5
SpikePsi == <<5, 5, 5, 5, 5, 100, 5, 5, 5, 5>>
SpikePhi == <<1, 1, 1, 1, 1, 1, 1, 1, 1, 1>>

CurvePairs ==
    {[psi_values |-> SpikePsi, phi_values |-> SpikePhi]} \cup
    UNION {[psi_values : [1..n -> PsiVals], phi_values : [1..n -> PhiVals]] : n \in 1..MaxLen}

(***************************************************************************)
(* SharedTools.gen_results_dict                                            *)
(***************************************************************************)
GenResultsDict ==
    [stamps |-> <<>>, new_lh |-> <<>>, results |-> <<>>, times |-> <<>>,
     lc |-> <<>>, lc_index |-> <<>>, all_stamps |-> <<>>, psi_curves |-> <<>>,
     phi_curves |-> <<>>, final_results |-> <<>>]

NoLocals == [likelihood_limit |-> FALSE, res_num |-> 0, results |-> <<>>, i |-> 0,
             curve_index |-> 0, psi_curves |-> <<>>, phi_curves |-> <<>>,
             all_results |-> <<>>]

(***************************************************************************)
(* _return_indices called on one curve pair                                *)
(***************************************************************************)
InitFilter ==
    /\ arg \in CurvePairs
    /\ res = <<>>
    /\ pc = "filter"
    /\ search = <<>> /\ lh_level = 0 /\ chunk_size = 1
    /\ ld = NoLocals /\ requests = <<>> /\ examined = <<>>
    /\ keep = GenResultsDict /\ pool = <<>> /\ lh_sorted_idx = <<>>

\* what the two passes of lines 616-635 compute for a curve pair, recorded
\* next to the returned tuple
SomeBelowZero(P0) == With(P0, LAMBDA P : \E j \in 1..Len(P) : XLt(P[j], Zero))

Passes(psi_values0, phi_values0) ==
    With2(psi_values0, phi_values0, LAMBDA psi_values, phi_values :
    With(FluxIdx(psi_values, phi_values), LAMBDA flux_idx :
        IF Len(flux_idx) < 2
        THEN [usable |-> Len(flux_idx), keep_idx |-> <<>>, keep_idx_back |-> <<>>,
              neg_fwd |-> FALSE, neg_bwd |-> FALSE]
        ELSE
    With2(Pick(FluxVals(psi_values, phi_values), flux_idx), FVar(phi_values, flux_idx),
          LAMBDA fluxes, f_var :
    With2(KalmanFilter(fluxes, f_var), BackwardPass(fluxes, f_var), LAMBDA fwd, bwd :
        [usable |-> Len(flux_idx),
         keep_idx |-> KeepIdx(fwd, fluxes),
         keep_idx_back |-> KeepIdxBack(bwd, fluxes),
         neg_fwd |-> SomeBelowZero(fwd.P),
         neg_bwd |-> SomeBelowZero(bwd.P)]))))

CallReturnIndices ==
    /\ pc = "filter"
    /\ \E passes \in {Passes(arg.psi_values, arg.phi_values)} :
       \E v \in Ordinals :
          res' = <<[val_on |-> v,
                    ret |-> ReturnIndices(arg.psi_values, arg.phi_values, v),
                    passes |-> passes]>>
    /\ pc' = "returned"
    /\ UNCHANGED <<search, lh_level, chunk_size, ld, requests, examined, keep, pool,
                   lh_sorted_idx, arg>>

NextFilter == CallReturnIndices

SpecFilter == InitFilter /\ [][NextFilter]_vars

(***************************************************************************)
(* The search engine.  A ranked trajectory is [tid, lh, x, y, x_v, y_v];   *)
(* its curve pair and stamps are what the engine computes for it, given    *)
(* here per trajectory kind.  Every curve has NumEpochs samples.           *)
(***************************************************************************)
\* kbmod.no_data, the value of a masked pixel
NoData == -9999

Kinds ==
    [A |-> [lh |-> 8,  psi |-> <<4, 4, 4, 4>>,   phi |-> <<1, 1, 1, 1>>,
            stamps |-> <<"gauss", "gauss", "gauss", "gauss">>,
            x |-> 10, y |-> 10, x_v |-> 3, y_v |-> 0],
     B |-> [lh |-> 8,  psi |-> <<4, 4, 4, 4>>,   phi |-> <<1, 1, 1, 1>>,
            stamps |-> <<"gauss", "gauss", "gauss", "gauss">>,
            x |-> 11, y |-> 10, x_v |-> 3, y_v |-> 0],
     C |-> [lh |-> 8,  psi |-> <<4, 4, 4, 4>>,   phi |-> <<1, 1, 1, 1>>,
            stamps |-> <<"corner", "corner", "corner", "corner">>,
            x |-> 50, y |-> 50, x_v |-> 3, y_v |-> 0],
     S |-> [lh |-> 86, psi |-> <<4, 4, 4, 160>>, phi |-> <<1, 1, 1, 1>>,
            stamps |-> <<"gauss", "gauss", "gauss", "corner">>,
            x |-> 80, y |-> 80, x_v |-> 5, y_v |-> 0],
     N |-> [lh |-> 6,  psi |-> <<NoData, NoData, NoData, NoData>>,
            phi |-> <<NoData, NoData, NoData, NoData>>,
            stamps |-> <<"gauss", "gauss", "gauss", "gauss">>,
            x |-> 10, y |-> 11, x_v |-> 3, y_v |-> 0],
     F |-> [lh |-> 5,  psi |-> <<4, 4, 0, 0>>,   phi |-> <<1, 1, 1, 1>>,
            stamps |-> <<"gauss", "gauss", "gauss", "gauss">>,
            x |-> 70, y |-> 30, x_v |-> 3, y_v |-> 0],
     R |-> [lh |-> 16, psi |-> <<4, 4, 4, 4>>,   phi |-> <<1, -2, 1, 1>>,
            stamps |-> <<"gauss", "gauss", "gauss", "gauss">>,
            x |-> 20, y |-> 60, x_v |-> 3, y_v |-> 0],
     P |-> [lh |-> 3,  psi |-> <<1, 1, 1, 1>>,   phi |-> <<-2, -2, -2, -2>>,
            stamps |-> <<"gauss", "gauss", "gauss", "gauss">>,
            x |-> 60, y |-> 20, x_v |-> 3, y_v |-> 0],
     L |-> [lh |-> 2,  psi |-> <<1, 1, 1, 1>>,   phi |-> <<1, 1, 1, 1>>,
            stamps |-> <<"gauss", "gauss", "gauss", "gauss">>,
            x |-> 90, y |-> 10, x_v |-> 3, y_v |-> 0],
     Z |-> [lh |-> 1,  psi |-> <<1, 0, 0, 1>>,   phi |-> <<1, 1, 1, 1>>,
            stamps |-> <<"gauss", "gauss", "gauss", "gauss">>,
            x |-> 10, y |-> 90, x_v |-> 3, y_v |-> 0]]

\* every curve of the catalogue has this many samples
NumEpochs == Len(Kinds.A.psi)

Trajectory(tid) ==
    [tid |-> tid, lh |-> Kinds[tid].lh, x |-> Kinds[tid].x, y |-> Kinds[tid].y,
     x_v |-> Kinds[tid].x_v, y_v |-> Kinds[tid].y_v]

\* the engine ranks by non-increasing likelihood
Ranked(q) == \A j \in 1..Len(q) - 1 : q[j].lh >= q[j + 1].lh

Rankings ==
    {q \in UNION {[1..n -> {Trajectory(t) : t \in DOMAIN Kinds}] : n \in 0..MaxTraj} :
        Ranked(q)}

Min2(a, b) == IF a < b THEN a ELSE b

\* search.get_results(start, count): up to count results from rank start on
GetResults(start, count) ==
    IF start >= Len(search) THEN <<>>
    ELSE SubSeq(search, start + 1, Min2(start + count, Len(search)))

\* search.lightcurve(trajectory)
Lightcurve(line) == [psi |-> Kinds[line.tid].psi, phi |-> Kinds[line.tid].phi]

(***************************************************************************)
(* Interface.load_results                                                  *)
(***************************************************************************)
Prefix(q, n) == SubSeq(q, 1, Min2(n, Len(q)))

RECURSIVE Concatenate(_)
Concatenate(qs0) ==
    With(qs0, LAMBDA qs : IF Len(qs) = 0 THEN <<>> ELSE qs[1] \o Concatenate(Tail(qs)))

\* lines 207/215: results[0] of an empty batch raises IndexError
AfterFetchSwallow(results) == IF Len(results) = 0 THEN "load_trim" ELSE "load_examine"

AfterFetch(results) == IF Len(results) = 0 THEN "error" ELSE "load_examine"

\* lines 238-242: x[0:curve_index]
TrimInclusive(rows, curve_index) == Prefix(rows, curve_index + 1)

Trim(rows, curve_index) == Prefix(rows, curve_index)

\* line 231: the stop condition
Below(lh, level) == lh < level

\* line 235: res_num += chunk_size
NextStartOne(res_num, size) == res_num + 1

NextStart(res_num, size) == res_num + size

LoadFetch ==
    /\ pc = "load_fetch"
    /\ LET results == GetResults(ld.res_num, chunk_size)
           prealloc_matrix == [r \in 1..Len(results) |-> [c \in 1..NumEpochs |-> 0]]
       IN  /\ requests' = Append(requests, ld.res_num)
           /\ pc' = AfterFetch(results)
           /\ ld' = IF Len(results) = 0
                    THEN [ld EXCEPT !.results = results]
                    ELSE [ld EXCEPT !.results = results, !.i = 0,
                                    !.psi_curves = @ \o prealloc_matrix,
                                    !.phi_curves = @ \o prealloc_matrix]
    /\ UNCHANGED <<search, lh_level, chunk_size, examined, keep, pool, lh_sorted_idx,
                   arg, res>>

\* one pass of the for loop of lines 226-233, and lines 234-235 when it ends
LoadExamine ==
    /\ pc = "load_examine"
    /\ LET line == ld.results[ld.i + 1]
           curve_index == ld.i + ld.res_num
           curves == Lightcurve(line)
           stored == [ld EXCEPT !.curve_index = curve_index,
                                !.psi_curves[curve_index + 1] = curves.psi,
                                !.phi_curves[curve_index + 1] = curves.phi]
           ended == [stored EXCEPT !.all_results = Append(@, ld.results),
                                   !.res_num = NextStart(@, chunk_size)]
       IN  IF curve_index >= Len(ld.psi_curves)
           THEN /\ pc' = "error"
                /\ ld' = [ld EXCEPT !.curve_index = curve_index]
                /\ UNCHANGED examined
           ELSE /\ examined' = Append(examined, curve_index)
                /\ IF Below(line.lh, lh_level)
                   THEN /\ ld' = [ended EXCEPT !.likelihood_limit = TRUE]
                        /\ pc' = "load_trim"
                   ELSE IF ld.i + 1 < Len(ld.results)
                   THEN /\ ld' = [stored EXCEPT !.i = @ + 1]
                        /\ pc' = "load_examine"
                   ELSE /\ ld' = ended
                        /\ pc' = "load_fetch"
    /\ UNCHANGED <<search, lh_level, chunk_size, requests, keep, pool, lh_sorted_idx,
                   arg, res>>

LoadTrim ==
    /\ pc = "load_trim"
    /\ keep' = [GenResultsDict EXCEPT
                   !.psi_curves = Trim(ld.psi_curves, ld.curve_index),
                   !.phi_curves = Trim(ld.phi_curves, ld.curve_index),
                   !.results = Trim(Concatenate(ld.all_results), ld.curve_index)]
    /\ pc' = "loaded"
    /\ UNCHANGED <<search, lh_level, chunk_size, ld, requests, examined, pool,
                   lh_sorted_idx, arg, res>>

LoadResults == LoadFetch \/ LoadExamine \/ LoadTrim

(***************************************************************************)
(* Stamps.  A stamp is a 21 x 21 image, kept as the function from its      *)
(* non-background pixels <<row, col>> to their values; every other pixel   *)
(* is 0.                                                                   *)
(***************************************************************************)
StampRadius == 10
StampWidth == 21
Pixels == (0..StampWidth - 1) \X (0..StampWidth - 1)

StampImage ==
    [gauss  |-> (<<10, 10>> :> 8) @@ (<<9, 10>> :> 2) @@ (<<11, 10>> :> 2) @@
                (<<10, 9>> :> 2) @@ (<<10, 11>> :> 2),
     corner |-> (<<2, 2>> :> 8)]

At(stamp, px) == IF px \in DOMAIN stamp THEN stamp[px] ELSE 0

\* search.sci_stamps(trajectory, 10): one stamp per epoch
SciStamps(line) == [e \in 1..NumEpochs |-> StampImage[Kinds[line.tid].stamps[e]]]

\* np.sum(stamp_arr, axis=0)
RECURSIVE StampSum(_)
StampSum(stamp_arr0) ==
    With(stamp_arr0, LAMBDA stamp_arr :
        IF Len(stamp_arr) = 0 THEN <<>>
        ELSE With2(stamp_arr[1], StampSum(Tail(stamp_arr)), LAMBDA first, rest :
                 [px \in DOMAIN first \cup DOMAIN rest |-> At(first, px) + At(rest, px)]))

\* image_params['mjd']
Mjd == [e \in 1..NumEpochs |-> 57000 + e]

(***************************************************************************)
(* PostProcess.apply_kalman_filter                                         *)
(***************************************************************************)
MinKept == 3

\* lines 442-447: the three reasons to skip a trajectory
Skips(v, level) ==
    \/ v.idx[1] = -1
    \/ Len(v.idx) < MinKept
    \/ LhLt(v.new_lh[1], Plain(level))

\* lines 449-465: the appends for one accepted trajectory
AppendAcceptedNoTimes(k, line, curves, v) ==
    With2(SciStamps(line), MaskedPhiValues(curves.phi), LAMBDA stamps, masked :
        [k EXCEPT
            !.results = Append(@, line),
            !.new_lh = Append(@, v.new_lh[1]),
            !.all_stamps = Append(@, stamps),
            !.stamps = Append(@, StampSum(Pick(stamps, v.idx))),
            !.lc = Append(@, [e \in 1..Len(curves.psi) |-> Ratio(curves.psi[e], masked[e])]),
            !.lc_index = Append(@, v.idx),
            !.psi_curves = Append(@, curves.psi),
            !.phi_curves = Append(@, curves.phi)])

AppendAccepted(k, line, curves, v) ==
    With2(SciStamps(line), MaskedPhiValues(curves.phi), LAMBDA stamps, masked :
        [k EXCEPT
            !.results = Append(@, line),
            !.new_lh = Append(@, v.new_lh[1]),
            !.all_stamps = Append(@, stamps),
            !.stamps = Append(@, StampSum(Pick(stamps, v.idx))),
            !.lc = Append(@, [e \in 1..Len(curves.psi) |-> Ratio(curves.psi[e], masked[e])]),
            !.lc_index = Append(@, v.idx),
            !.psi_curves = Append(@, curves.psi),
            !.phi_curves = Append(@, curves.phi),
            !.times = Append(@, Pick(Mjd, v.idx))])

\* the loop of lines 441-465 from result_on on; err when [1][0] of an empty
\* index array raises IndexError
RECURSIVE CollectLoop(_, _, _, _)
CollectLoop(k0, old_results, keep_idx_results, result_on0) ==
    With2(k0, result_on0, LAMBDA k, result_on :
        IF result_on >= Len(old_results.psi_curves) THEN [err |-> FALSE, keep |-> k]
        ELSE With(keep_idx_results[result_on + 1], LAMBDA v :
                 IF Len(v.idx) = 0 THEN [err |-> TRUE, keep |-> k]
                 ELSE IF Skips(v, lh_level)
                 THEN CollectLoop(k, old_results, keep_idx_results, result_on + 1)
                 ELSE CollectLoop(
                          AppendAccepted(k, old_results.results[result_on + 1],
                                         [psi |-> old_results.psi_curves[result_on + 1],
                                          phi |-> old_results.phi_curves[result_on + 1]], v),
                          old_results, keep_idx_results, result_on + 1)))

\* lines 430-434: one _return_indices task per curve pair
KalmanStart ==
    /\ pc = "loaded"
    /\ pool' = [j \in 1..Len(keep.psi_curves) |-> <<>>]
    /\ pc' = "kalman_pool"
    /\ UNCHANGED <<search, lh_level, chunk_size, ld, requests, examined, keep,
                   lh_sorted_idx, arg, res>>

\* a worker's result stored in completion order, not at its task's position
KalmanWorkerCompletionOrder ==
    /\ pc = "kalman_pool"
    /\ \E j \in 1..Len(pool) :
       \E first \in {i \in 1..Len(pool) : pool[i] = <<>>} :
          /\ \A i \in 1..first - 1 : pool[i] # <<>>
          /\ pool' = [pool EXCEPT
                         ![first] = <<ReturnIndices(keep.psi_curves[j], keep.phi_curves[j], j - 1)>>]
    /\ UNCHANGED <<search, lh_level, chunk_size, pc, ld, requests, examined, keep,
                   lh_sorted_idx, arg, res>>

\* a pool worker runs task j
KalmanWorker ==
    /\ pc = "kalman_pool"
    /\ \E j \in 1..Len(pool) :
          /\ pool[j] = <<>>
          /\ pool' = [pool EXCEPT
                         ![j] = <<ReturnIndices(keep.psi_curves[j], keep.phi_curves[j], j - 1)>>]
    /\ UNCHANGED <<search, lh_level, chunk_size, pc, ld, requests, examined, keep,
                   lh_sorted_idx, arg, res>>

\* lines 435-467, after pool.join(); keep_idx_results[0] of an empty list
\* raises IndexError (a returned tuple always has 3 entries, so line 440 never runs)
KalmanCollect ==
    /\ pc = "kalman_pool"
    /\ \A j \in 1..Len(pool) : pool[j] # <<>>
    /\ \E keep_idx_results \in {[j \in 1..Len(pool) |-> pool[j][1]]} :
          IF Len(keep_idx_results) = 0
          THEN pc' = "error" /\ UNCHANGED keep
          ELSE \E out \in {CollectLoop(GenResultsDict, keep, keep_idx_results, 0)} :
                  IF out.err
                  THEN pc' = "error" /\ UNCHANGED keep
                  ELSE pc' = "filtered" /\ keep' = out.keep
    /\ pool' = <<>>
    /\ UNCHANGED <<search, lh_level, chunk_size, ld, requests, examined, lh_sorted_idx,
                   arg, res>>

ApplyKalmanFilter == KalmanStart \/ KalmanWorker \/ KalmanCollect

(***************************************************************************)
(* PostProcess._stamp_filter_parallel.  s = (stamps - min)/sum(stamps -    *)
(* min) and the raw moments of s about (10, 10) are kept as the integer    *)
(* numerators over the common denominator tot, so every threshold test is  *)
(* an integer comparison.                                                  *)
(***************************************************************************)
RECURSIVE SumTo(_, _)
SumTo(f0, n0) ==
    With2(f0, n0, LAMBDA f, n : IF n < 0 THEN 0 ELSE f[n] + SumTo(f, n - 1))

GridSum(G(_, _)) ==
    SumTo([r \in 0..StampWidth - 1 |->
              SumTo([c \in 0..StampWidth - 1 |-> G(r, c)], StampWidth - 1)],
          StampWidth - 1)

IntAbs(n) == IF n < 0 THEN -n ELSE n
Pow(b, e) == IF e = 0 THEN 1 ELSE IF e = 1 THEN b ELSE b * b
SetMax(S0) == With(S0, LAMBDA S : CHOOSE m \in S : \A w \in S : w <= m)
SetMin(S0) == With(S0, LAMBDA S : CHOOSE m \in S : \A w \in S : m <= w)

\* line 765 for one axis: |peak - 10| < 2, where peak is max|peak - 10| when
\* several pixels hold the maximum (lines 756-760)
PeakNear(coords, count) ==
    IF count > 1
    THEN IntAbs(SetMax({IntAbs(c - StampRadius) : c \in coords}) - StampRadius) < 2
    ELSE \A c \in coords : IntAbs(c - StampRadius) < 2

\* line 766: np.max(stamps/np.sum(stamps)) > 0.03
CenterBright(stamps0) ==
    With(stamps0, LAMBDA stamps :
    With2({At(stamps, px) : px \in Pixels}, GridSum(LAMBDA r, c : At(stamps, <<r, c>>)),
          LAMBDA vals, total :
        IF total > 0 THEN 100 * SetMax(vals) > 3 * total
        ELSE IF total < 0 THEN 100 * SetMin(vals) < 3 * total
        ELSE 0 \notin vals /\ \E w \in vals : w > 0))

\* lines 762-764: the five moment tests (all false when s is nan, tot = 0)
MomentTests(stamps0) ==
    With(stamps0, LAMBDA stamps :
    With(SetMin({At(stamps, px) : px \in Pixels}), LAMBDA lo :
    With(GridSum(LAMBDA r, c : At(stamps, <<r, c>>) - lo), LAMBDA tot :
    LET M(a, b) == GridSum(LAMBDA r, c :
                       Pow(r - StampRadius, a) * Pow(c - StampRadius, b) *
                       (At(stamps, <<r, c>>) - lo))
    IN  /\ tot # 0
        /\ 2 * M(2, 0) < 71 * tot
        /\ 2 * M(0, 2) < 71 * tot
        /\ IntAbs(M(1, 1)) < tot
        /\ 4 * IntAbs(M(1, 0)) < tot
        /\ 4 * IntAbs(M(0, 1)) < tot)))

\* line 754: the pixels holding the maximum
PeakPixels(stamps0) ==
    With(stamps0, LAMBDA stamps :
    With(SetMax({At(stamps, px) : px \in Pixels}), LAMBDA hi :
        {px \in Pixels : At(stamps, px) = hi}))

StampFilterParallel(stamps0) ==
    With(stamps0, LAMBDA stamps :
    With(PeakPixels(stamps), LAMBDA peaks :
        IF /\ MomentTests(stamps)
           /\ PeakNear({px[1] : px \in peaks}, Cardinality(peaks))
           /\ PeakNear({px[2] : px \in peaks}, Cardinality(peaks))
        THEN IF CenterBright(stamps) THEN 1 ELSE 0
        ELSE 0))

(***************************************************************************)
(* _stamp_filter_parallel called on one stacked stamp                      *)
(***************************************************************************)
StampPixels == {<<10, 10>>, <<10, 9>>, <<10, 11>>, <<12, 10>>, <<2, 2>>}
StampValues == {0, 2, 8}

\* the four corners at 8 around a 3 x 3 centre block at 7
CornerTied ==
    [px \in {<<0, 0>>, <<0, 20>>, <<20, 0>>, <<20, 20>>} \cup ((9..11) \X (9..11)) |->
        IF px[1] \in 9..11 THEN 7 ELSE 8]

StampInputs == [StampPixels -> StampValues] \cup {CornerTied}

InitStamp ==
    /\ arg \in [stamps : StampInputs]
    /\ res = <<>>
    /\ pc = "stamp_call"
    /\ search = <<>> /\ lh_level = 0 /\ chunk_size = 1
    /\ ld = NoLocals /\ requests = <<>> /\ examined = <<>>
    /\ keep = GenResultsDict /\ pool = <<>> /\ lh_sorted_idx = <<>>

CallStampFilter ==
    /\ pc = "stamp_call"
    /\ res' = <<StampFilterParallel(arg.stamps)>>
    /\ pc' = "stamp_returned"
    /\ UNCHANGED <<search, lh_level, chunk_size, ld, requests, examined, keep, pool,
                   lh_sorted_idx, arg>>

NextStamp == CallStampFilter

SpecStamp == InitStamp /\ [][NextStamp]_vars

(***************************************************************************)
(* PostProcess.apply_stamp_filter                                          *)
(***************************************************************************)
\* numpy's sort order: NaN after every number
SortsBefore(a, b) ==
    IF LhKind(a) = "nan" THEN FALSE
    ELSE IF LhKind(b) = "nan" THEN TRUE
    ELSE LhLt(a, b)

IndexOrders(n) ==
    {q \in [1..n -> 0..n - 1] : \A i, j \in 1..n : i # j => q[i] # q[j]}

\* np.argsort(x): an index order that sorts x ascending; the default sort is
\* not stable, so equal keys may come in either order
Argsort(x0) ==
    With(x0, LAMBDA x :
        {q \in IndexOrders(Len(x)) :
            \A i, j \in 1..Len(x) : i < j => ~SortsBefore(x[q[j] + 1], x[q[i] + 1])})

\* the sorted order left unreversed
ArgsortAscending(x) == Argsort(x)

\* line 485: np.argsort(new_lh)[::-1]
ArgsortDescending(x) == {Reverse(q) : q \in Argsort(x)}

Passed(sorted_idx, stamp_filt_results) ==
    SelectSeq([j \in 1..Len(sorted_idx) |-> [ord |-> sorted_idx[j], r |-> stamp_filt_results[j]]],
              LAMBDA e : e.r = 1)

\* the passing ordinals counted from 1
StampFiltIdxOneBased(sorted_idx, stamp_filt_results) ==
    With(Passed(sorted_idx, stamp_filt_results), LAMBDA sel :
        [j \in 1..Len(sel) |-> sel[j].ord + 1])

\* lines 497-498: lh_sorted_idx[np.where(results == 1)]
StampFiltIdx(sorted_idx, stamp_filt_results) ==
    With(Passed(sorted_idx, stamp_filt_results), LAMBDA sel :
        [j \in 1..Len(sel) |-> sel[j].ord])

\* line 485-489 and 507; pdb.set_trace() of line 486 changes no state
StampStart ==
    /\ pc = "filtered"
    /\ \E q \in ArgsortDescending(keep.new_lh) :
          /\ lh_sorted_idx' = q
          /\ IF Len(q) > 0
             THEN /\ pool' = [j \in 1..Len(q) |-> <<>>]
                  /\ pc' = "stamp_pool"
                  /\ UNCHANGED keep
             ELSE /\ keep' = [keep EXCEPT !.final_results = q]
                  /\ pc' = "stamped"
                  /\ UNCHANGED pool
    /\ UNCHANGED <<search, lh_level, chunk_size, ld, requests, examined, arg, res>>

\* a pool worker filters the j-th stacked stamp in sorted order
StampWorker ==
    /\ pc = "stamp_pool"
    /\ \E j \in 1..Len(pool) :
          /\ pool[j] = <<>>
          /\ pool' = [pool EXCEPT
                         ![j] = <<StampFilterParallel(keep.stamps[lh_sorted_idx[j] + 1])>>]
    /\ UNCHANGED <<search, lh_level, chunk_size, pc, ld, requests, examined, keep,
                   lh_sorted_idx, arg, res>>

\* lines 496-505
StampCollect ==
    /\ pc = "stamp_pool"
    /\ \A j \in 1..Len(pool) : pool[j] # <<>>
    /\ \E stamp_filt_results \in {[j \in 1..Len(pool) |-> pool[j][1]]} :
       \E stamp_filt_idx \in {StampFiltIdx(lh_sorted_idx, stamp_filt_results)} :
          keep' = [keep EXCEPT
                      !.final_results = IF Len(stamp_filt_idx) > 0 THEN stamp_filt_idx
                                        ELSE <<>>]
    /\ pc' = "stamped"
    /\ pool' = <<>>
    /\ UNCHANGED <<search, lh_level, chunk_size, ld, requests, examined, lh_sorted_idx,
                   arg, res>>

ApplyStampFilter == StampStart \/ StampWorker \/ StampCollect

(***************************************************************************)
(* PostProcess._cluster_results and apply_clustering.  Every catalogue     *)
(* trajectory moves along x, so its speed and angle are exact.             *)
(***************************************************************************)
ImageParams == [x_size |-> 100, y_size |-> 100, vel_lims |-> <<0, 10>>,
                ang_lims |-> <<-1, 1>>]

\* eps = 0.03 of line 694, squared
EpsSquared == Ratio(9, 10000)

Sqrt(n0) == With(n0, LAMBDA n : CHOOSE r \in 0..n : r * r = n)
Arctan(slope0) == With(slope0, LAMBDA slope : CHOOSE a \in {0} : slope = Zero)

\* lines 705-719: the four scaled features of a trajectory
Features(line0) ==
    With(line0, LAMBDA line :
    With2(Sqrt(line.x_v * line.x_v + line.y_v * line.y_v),
          Arctan(XDiv(FromInt(line.y_v), FromInt(line.x_v))), LAMBDA vel, ang :
        <<Ratio(line.x, ImageParams.x_size),
          Ratio(line.y, ImageParams.y_size),
          Ratio(vel - ImageParams.vel_lims[1],
                ImageParams.vel_lims[2] - ImageParams.vel_lims[1]),
          Ratio(ang - ImageParams.ang_lims[1],
                ImageParams.ang_lims[2] - ImageParams.ang_lims[1])>>))

RECURSIVE DistSquaredFrom(_, _, _)
DistSquaredFrom(f, g, k0) ==
    With(k0, LAMBDA k :
        IF k > Len(f) THEN Zero
        ELSE With(XSub(f[k], g[k]), LAMBDA diff :
                 XAdd(XMul(diff, diff), DistSquaredFrom(f, g, k + 1))))

\* DBSCAN's neighbourhood: Euclidean distance <= eps
Neighbours(f0, g0) ==
    With2(f0, g0, LAMBDA f, g : ~XLt(EpsSquared, DistSquaredFrom(f, g, 1)))

RECURSIVE Grow(_, _)
Grow(members0, feats) ==
    With(members0, LAMBDA members :
    With({j \in 1..Len(feats) : \E i \in members : Neighbours(feats[i], feats[j])},
         LAMBDA more :
        IF more \subseteq members THEN members ELSE Grow(members \cup more, feats)))

\* with min_samples = -1 every point is a core point, so the clusters are the
\* connected components of the neighbourhood graph
ClusterOf(i, feats) == Grow({i}, feats)

SortedSeq(S0) ==
    With(S0, LAMBDA S :
        CHOOSE q \in [1..Cardinality(S) -> S] :
            \A i, j \in 1..Cardinality(S) : i < j => q[i] < q[j])

\* the last member of every cluster instead of the first
ClusterResultsLast(results0) ==
    With(results0, LAMBDA results :
    With([j \in 1..Len(results) |-> Features(results[j])], LAMBDA feats :
        SortedSeq({SetMax(ClusterOf(i, feats)) - 1 : i \in 1..Len(results)})))

\* lines 725-728: the first member of every cluster, by ascending label
ClusterResults(results0) ==
    With(results0, LAMBDA results :
    With([j \in 1..Len(results) |-> Features(results[j])], LAMBDA feats :
        SortedSeq({SetMin(ClusterOf(i, feats)) - 1 : i \in 1..Len(results)})))

\* line 533 without the indexing of final_results by cluster_idx
ApplyClusteringPositions ==
    /\ pc = "stamped"
    /\ IF Len(keep.final_results) > 0
       THEN \E cluster_idx \in {ClusterResults(Pick(keep.results, keep.final_results))} :
               keep' = [keep EXCEPT !.final_results = cluster_idx]
       ELSE UNCHANGED keep
    /\ pc' = "done"
    /\ UNCHANGED <<search, lh_level, chunk_size, ld, requests, examined, pool,
                   lh_sorted_idx, arg, res>>

\* lines 526-536
ApplyClustering ==
    /\ pc = "stamped"
    /\ IF Len(keep.final_results) > 0
       THEN \E cluster_idx \in {ClusterResults(Pick(keep.results, keep.final_results))} :
               keep' = [keep EXCEPT !.final_results = Pick(@, cluster_idx)]
       ELSE UNCHANGED keep
    /\ pc' = "done"
    /\ UNCHANGED <<search, lh_level, chunk_size, ld, requests, examined, pool,
                   lh_sorted_idx, arg, res>>

(***************************************************************************)
(* apply_clustering called on an aggregate holding some trajectories and   *)
(* some final selection, and called again on the aggregate it returned.    *)
(* arg is the aggregate the current call was given.                        *)
(***************************************************************************)
\* B lies within eps of A and of D; A and D are farther apart than eps
ClusterTrajectories ==
    {Trajectory(t) : t \in {"A", "B", "C"}} \cup
    {[tid |-> "D", lh |-> 8, x |-> 13, y |-> 11, x_v |-> 3, y_v |-> 0]}

\* a final selection: distinct positions of the n per-trajectory entries
Selections(n) ==
    UNION {{q \in [1..m -> 0..n - 1] : \A i, j \in 1..m : i # j => q[i] # q[j]} : m \in 0..n}

ClusterInputs ==
    UNION {{[GenResultsDict EXCEPT !.results = q, !.final_results = sel] :
               q \in [1..n -> ClusterTrajectories], sel \in Selections(n)} : n \in 1..MaxTraj}

InitCluster ==
    /\ keep \in ClusterInputs
    /\ arg = [keep |-> keep]
    /\ res = <<>>
    /\ pc = "stamped"
    /\ search = <<>> /\ lh_level = 0 /\ chunk_size = 1
    /\ ld = NoLocals /\ requests = <<>> /\ examined = <<>>
    /\ pool = <<>> /\ lh_sorted_idx = <<>>

\* the caller hands the returned aggregate to apply_clustering once more;
\* res remembers the selection the first call returned
Recluster ==
    /\ pc = "done"
    /\ res = <<>>
    /\ res' = <<keep.final_results>>
    /\ arg' = [keep |-> keep]
    /\ pc' = "stamped"
    /\ UNCHANGED <<search, lh_level, chunk_size, ld, requests, examined, keep, pool,
                   lh_sorted_idx>>

NextCluster == ApplyClustering \/ Recluster

SpecCluster == InitCluster /\ [][NextCluster]_vars

(***************************************************************************)
(* The run: load_results, apply_kalman_filter, apply_stamp_filter,         *)
(* apply_clustering, on an engine holding some ranking.                    *)
(***************************************************************************)
Init ==
    /\ search \in Rankings
    /\ lh_level \in LhLevels
    /\ chunk_size \in 1..MaxChunk
    /\ pc = "load_fetch"
    /\ ld = NoLocals /\ requests = <<>> /\ examined = <<>>
    /\ keep = GenResultsDict /\ pool = <<>> /\ lh_sorted_idx = <<>>
    /\ arg = [psi_values |-> <<>>, phi_values |-> <<>>] /\ res = <<>>

Next ==
    \/ LoadFetch
    \/ LoadExamine
    \/ LoadTrim
    \/ KalmanStart
    \/ KalmanWorker
    \/ KalmanCollect
    \/ StampStart
    \/ StampWorker
    \/ StampCollect
    \/ ApplyClustering

Spec == Init /\ [][Next]_vars

\* load_results is sequential code: while it has a step to take, it takes it
FairSpec == Spec /\ WF_vars(LoadResults)

(***************************************************************************)
(* Properties of load_results                                              *)
(***************************************************************************)
LoaderReturned == pc = "loaded"

\* the global rank of the trajectory examined last
LastExamined == examined[Len(examined)]

RowCounts == {Len(keep.psi_curves), Len(keep.phi_curves), Len(keep.results)}

\* C1 as stated: when load_results returns after the trajectory of global
\* rank k crossed the threshold, psi_curves, phi_curves and results have
\* k + 1 rows each.
C1_RowsInclusive == LoaderReturned => RowCounts = {LastExamined + 1}

\* C1 amended: when load_results returns, the trajectory examined last, of
\* global rank k, is below lh_level, and psi_curves, phi_curves and results
\* hold exactly the k trajectories of ranks 0..k-1: the crossing trajectory
\* itself is left out.
C1_RowsBelowCrossing ==
    LoaderReturned =>
        /\ search[LastExamined + 1].lh < lh_level
        /\ RowCounts = {LastExamined}
        /\ keep.results = SubSeq(search, 1, LastExamined)
        /\ \A j \in 1..LastExamined :
              /\ keep.psi_curves[j] = Kinds[search[j].tid].psi
              /\ keep.phi_curves[j] = Kinds[search[j].tid].phi

C1_Witness == LoaderReturned /\ LastExamined = 2 /\ Len(requests) = 2

\* C2: batches are requested at start ranks 0, chunk_size, 2*chunk_size, ...;
\* trajectories are examined in rank order 0, 1, 2, ...; after a trajectory
\* below lh_level has been examined, nothing more is examined or requested;
\* and when the ranking holds a below-threshold trajectory, load_results
\* returns.
SomeExaminedBelow == \E j \in 1..Len(examined) : search[examined[j] + 1].lh < lh_level

RankingHasBelow == \E j \in 1..Len(search) : search[j].lh < lh_level

C2_BatchesInOrder ==
    /\ [](/\ \A j \in 1..Len(requests) : requests[j] = (j - 1) * chunk_size
          /\ \A j \in 1..Len(examined) : examined[j] = j - 1)
    /\ [][SomeExaminedBelow => (examined' = examined /\ requests' = requests)]_vars
    /\ (RankingHasBelow => <>LoaderReturned)

C2_Witness == LoaderReturned /\ Len(requests) = 2 /\ Len(examined) = 3 /\ chunk_size = 2

\* C3: when the engine returns an empty batch, load_results ends in the error
\* outcome: no aggregate is returned and no further step is taken.
EmptyBatch == \E j \in 1..Len(requests) : GetResults(requests[j], chunk_size) = <<>>

C3_EmptyBatchIsError ==
    /\ [](EmptyBatch => (pc = "error" /\ keep = GenResultsDict))
    /\ [][pc # "error"]_vars

C3_Witness == EmptyBatch /\ pc = "error" /\ Len(requests) = 2 /\ Len(examined) = 2

(***************************************************************************)
(* Properties of apply_kalman_filter                                       *)
(***************************************************************************)
KalmanReturned == pc = "filtered"

\* the input aggregate of the stage: what load_results returned
InputRows == SubSeq(search, 1, LastExamined)

Verdict(j) == ReturnIndices(Kinds[InputRows[j].tid].psi, Kinds[InputRows[j].tid].phi, j - 1)

\* a >= b as IEEE compares
LhGe(a, b) == LhKind(a) # "nan" /\ LhKind(b) # "nan" /\ ~LhLt(a, b)

Accepted(j) ==
    /\ Verdict(j).idx # <<-1>>
    /\ Len(Verdict(j).idx) >= 3
    /\ ~LhLt(Verdict(j).new_lh[1], Plain(lh_level))

AcceptedOrdinals == SelectSeq([j \in 1..Len(InputRows) |-> j], Accepted)

\* C4 as stated: the output holds input trajectory i iff its verdict is not
\* the sentinel, keeps at least 3 indices and its likelihood is not below
\* lh_level; so every entry has >= 3 kept indices and new_lh >= lh_level, and
\* the accepted trajectories come in ascending input order.
C4_AcceptedAboveLevel ==
    KalmanReturned =>
        /\ keep.results = [n \in 1..Len(AcceptedOrdinals) |-> InputRows[AcceptedOrdinals[n]]]
        /\ \A n \in 1..Len(keep.results) :
              /\ Len(keep.lc_index[n]) >= 3
              /\ LhGe(keep.new_lh[n], Plain(lh_level))

\* C5: after apply_kalman_filter the nine per-trajectory sequences have one
\* length, and position j of each of them describes the trajectory results[j].
PerTrajectoryLengths ==
    {Len(keep.results), Len(keep.new_lh), Len(keep.lc), Len(keep.lc_index),
     Len(keep.psi_curves), Len(keep.phi_curves), Len(keep.stamps),
     Len(keep.all_stamps), Len(keep.times)}

AfterKalman == pc \in {"filtered", "stamp_pool", "stamped", "done"}

C5_Aligned ==
    AfterKalman =>
        /\ Cardinality(PerTrajectoryLengths) = 1
        /\ \A j \in 1..Len(keep.results) :
              LET kind == Kinds[keep.results[j].tid]
                  verdict == ReturnIndices(kind.psi, kind.phi, 0)
              IN  /\ keep.psi_curves[j] = kind.psi
                  /\ keep.phi_curves[j] = kind.phi
                  /\ keep.lc_index[j] = verdict.idx
                  /\ keep.new_lh[j] = verdict.new_lh[1]
                  /\ Len(keep.lc[j]) = NumEpochs
                  /\ \A e \in 1..NumEpochs :
                        keep.lc[j][e] = Ratio(kind.psi[e], IF kind.phi[e] = 0 THEN MaskedPhi
                                                           ELSE kind.phi[e])
                  /\ keep.all_stamps[j] = [e \in 1..NumEpochs |-> StampImage[kind.stamps[e]]]
                  /\ keep.stamps[j] = StampSum([n \in 1..Len(verdict.idx) |->
                                                  StampImage[kind.stamps[verdict.idx[n] + 1]]])
                  /\ keep.times[j] = [n \in 1..Len(verdict.idx) |-> Mjd[verdict.idx[n] + 1]]

C5_Witness ==
    /\ KalmanReturned
    /\ Len(keep.results) = 1
    /\ LastExamined = 2
    /\ keep.results[1] = search[1]
    /\ Len(keep.lc_index[1]) = 3

\* C6 as stated: when no trajectory survives a stage, the later stages do not
\* raise and the run ends with an empty final selection.
NoSurvivors ==
    /\ ld.likelihood_limit
    /\ pc \notin {"load_trim", "loaded", "kalman_pool"} => Len(keep.results) = 0
    /\ pc \in {"load_trim", "loaded", "kalman_pool"} => LastExamined = 0

C6_EmptyRunCompletes ==
    NoSurvivors => (pc # "error" /\ (pc = "done" => keep.final_results = <<>>))

(***************************************************************************)
(* Properties of apply_stamp_filter                                        *)
(***************************************************************************)
StampReturned == pc = "stamped"

PassingOrdinals == {o \in 0..Len(keep.stamps) - 1 : StampFilterParallel(keep.stamps[o + 1]) = 1}

ExactlyPassing ==
    /\ {keep.final_results[i] : i \in 1..Len(keep.final_results)} = PassingOrdinals
    /\ Len(keep.final_results) = Cardinality(PassingOrdinals)

\* C10 as stated: the final selection is exactly the passing ordinals, by
\* descending new_lh, equal new_lh in ascending ordinal order.
C10_SortedStable ==
    StampReturned =>
        /\ ExactlyPassing
        /\ \A i, j \in 1..Len(keep.final_results) :
              i < j =>
                  LET a == keep.new_lh[keep.final_results[i] + 1]
                      b == keep.new_lh[keep.final_results[j] + 1]
                  IN  \/ LhLt(b, a)
                      \/ (~LhLt(a, b) /\ keep.final_results[i] < keep.final_results[j])

\* C10 amended: the final selection is exactly the passing ordinals, each
\* once, and no ordinal comes before one of greater new_lh; the order of
\* ordinals of equal new_lh is not fixed.  It is empty when no stamp passes.
C10_SortedDescending ==
    StampReturned =>
        /\ ExactlyPassing
        /\ \A i, j \in 1..Len(keep.final_results) :
              i < j => ~LhLt(keep.new_lh[keep.final_results[i] + 1],
                             keep.new_lh[keep.final_results[j] + 1])

C10_Witness ==
    /\ StampReturned
    /\ keep.final_results = <<1, 0>>
    /\ keep.new_lh[1] = keep.new_lh[2]

(***************************************************************************)
(* Properties of _return_indices (checked under SpecFilter)                *)
(***************************************************************************)
Returned == res # <<>>

\* C7: _return_indices returns the reject sentinel exactly when the curve
\* pair has fewer than 2 non-zero light-curve samples or the error variance
\* is negative at some sample of the forward or the backward pass; otherwise
\* it returns the ordinal it was given.
C7_RejectExactly ==
    Returned =>
        /\ (res[1].ret = Reject) <=>
               \/ res[1].passes.usable < 2
               \/ res[1].passes.neg_fwd
               \/ res[1].passes.neg_bwd
        /\ res[1].ret # Reject => res[1].ret.val_on = <<res[1].val_on>>

IsSpike == arg.psi_values = SpikePsi /\ arg.phi_values = SpikePhi

InSeq(x, q) == \E j \in 1..Len(q) : q[j] = x

\* C8: on the spike scenario the kept indices do not contain index 5 and the
\* corrected likelihood is strictly below the raw likelihood of all 10 samples.
C8_SpikeExcluded ==
    (Returned /\ IsSpike) =>
        /\ res[1].ret # Reject
        /\ ~InSeq(5, res[1].ret.idx)
        /\ LhLt(res[1].ret.new_lh[1], ComputeLh(SpikePsi, SpikePhi))

C8_Witness == Returned /\ IsSpike /\ Len(res[1].ret.idx) = 7

AllEqualPositive(q) == \A j \in 1..Len(q) : q[j] > 0 /\ q[j] = q[1]

Monotone(q) ==
    \/ \A j \in 1..Len(q) - 1 : q[j] <= q[j + 1]
    \/ \A j \in 1..Len(q) - 1 : q[j] >= q[j + 1]

SymmetryCase ==
    /\ Returned
    /\ AllEqualPositive(arg.phi_values)
    /\ Monotone(arg.psi_values)
    /\ res[1].passes.usable >= 2

StampCallReturned == pc = "stamp_returned"

\* every pixel holding the maximum is within 2 pixels of (10, 10) on both axes
PeaksWithinTwo(stamps) ==
    \A px \in PeakPixels(stamps) :
        IntAbs(px[1] - StampRadius) < 2 /\ IntAbs(px[2] - StampRadius) < 2

\* C11 as stated: a stamp is accepted only if every pixel holding the maximum
\* is within 2 pixels of the centre on both axes (the farthest tied pixel
\* decides), and a stamp whose maximum pixels are all within 2 pixels of the
\* centre is not rejected by the peak test: it is accepted when the moment
\* tests and the brightness test pass.
C11_PeakWithinTwo ==
    StampCallReturned =>
        /\ res[1] = 1 => PeaksWithinTwo(arg.stamps)
        /\ (PeaksWithinTwo(arg.stamps) /\ MomentTests(arg.stamps) /\ CenterBright(arg.stamps))
               => res[1] = 1

(***************************************************************************)
(* Properties of apply_clustering (checked under SpecCluster)              *)
(***************************************************************************)
ClusteringReturned == pc = "done"

\* the trajectories the call clustered, in selection order
Selected == Pick(arg.keep.results, arg.keep.final_results)

\* positions i and j of the selection carry the same cluster label
SameLabel(i, j) == j \in ClusterOf(i, [n \in 1..Len(Selected) |-> Features(Selected[n])])

\* position i is the first of its label when scanning the selection
FirstOfLabel(i) == \A j \in 1..i - 1 : ~SameLabel(i, j)

FirstPositions == SelectSeq([i \in 1..Len(Selected) |-> i], FirstOfLabel)

AllWithinRadius ==
    \A i, j \in 1..Len(Selected) : Neighbours(Features(Selected[i]), Features(Selected[j]))

\* C12: given a non-empty final selection, apply_clustering returns one
\* ordinal per cluster label, the first member of the label in selection
\* order, the representatives listed in the order in which their labels
\* first appear in the selection; trajectories all within the radius of
\* each other collapse to one ordinal.
C12_FirstPerLabel ==
    (ClusteringReturned /\ Len(arg.keep.final_results) > 0) =>
        /\ keep.final_results =
               [n \in 1..Len(FirstPositions) |-> arg.keep.final_results[FirstPositions[n]]]
        /\ AllWithinRadius => Len(keep.final_results) = 1

C12_Witness ==
    /\ ClusteringReturned
    /\ res = <<>>
    /\ Len(arg.keep.final_results) = 3
    /\ keep.final_results = <<2, 0>>
    /\ SameLabel(2, 3)

\* C13: apply_clustering called on the aggregate it returned gives back the
\* same final selection, same members in the same order (and the rest of
\* the aggregate unchanged).
C13_Idempotent ==
    (ClusteringReturned /\ res # <<>>) =>
        /\ keep.final_results = res[1]
        /\ keep = arg.keep

C13_Witness ==
    /\ ClusteringReturned
    /\ res # <<>>
    /\ Len(keep.results) = 3
    /\ Len(res[1]) = 2
    /\ keep.final_results = <<2, 0>>

(***************************************************************************)
(* Properties of the stages run in pipeline order (checked under Spec)     *)
(***************************************************************************)
ClusteringStep == pc = "stamped" /\ pc' = "done"

\* the positions of the selection of aggregate k that are in the cluster of
\* position i
ClusterMates(k, i) ==
    ClusterOf(i, [n \in 1..Len(k.final_results) |->
                     Features(k.results[k.final_results[n] + 1])])

\* C14 as stated: in pipeline order, every ordinal that apply_clustering
\* keeps has a corrected likelihood at least that of every other member of
\* its cluster in the selection.
C14_BestOfCluster ==
    [][ClusteringStep =>
          \A i \in 1..Len(keep.final_results) :
              InSeq(keep.final_results[i], keep'.final_results) =>
                  \A j \in ClusterMates(keep, i) \ {i} :
                      LhGe(keep.new_lh[keep.final_results[i] + 1],
                           keep.new_lh[keep.final_results[j] + 1])]_vars

\* C15: in the aggregate every stage produces, the final selection holds
\* only positions of the per-trajectory sequences (0 <= index < number of
\* entries of results), none of them twice; and the selection apply_clustering
\* returns is a subset of the selection it was given.
SelectionValid ==
    /\ \A n \in 1..Len(keep.final_results) :
           keep.final_results[n] \in 0..Len(keep.results) - 1
    /\ \A n, o \in 1..Len(keep.final_results) :
           n # o => keep.final_results[n] # keep.final_results[o]

C15_SelectionValid ==
    /\ []SelectionValid
    /\ [][ClusteringStep =>
             \A n \in 1..Len(keep'.final_results) :
                 InSeq(keep'.final_results[n], keep.final_results)]_vars

C15_Witness ==
    /\ pc = "done"
    /\ Len(keep.results) = 2
    /\ lh_sorted_idx = <<1, 0>>
    /\ keep.final_results = <<1>>

(***************************************************************************)
(* Properties of the worker pools (checked under Spec)                     *)
(***************************************************************************)
TaskOutstanding ==
    pc \in {"kalman_pool", "stamp_pool"} /\ \E j \in 1..Len(pool) : pool[j] = <<>>

\* the aggregate load_results returned
LoaderOutput ==
    [GenResultsDict EXCEPT
        !.results = InputRows,
        !.psi_curves = [j \in 1..Len(InputRows) |-> Kinds[InputRows[j].tid].psi],
        !.phi_curves = [j \in 1..Len(InputRows) |-> Kinds[InputRows[j].tid].phi]]

\* verdict i applied to trajectory i
VerdictsByOrdinal ==
    CollectLoop(GenResultsDict, LoaderOutput, [j \in 1..Len(InputRows) |-> Verdict(j)], 0).keep

ShapesByOrdinal ==
    StampFiltIdx(lh_sorted_idx,
                 [j \in 1..Len(lh_sorted_idx) |->
                     StampFilterParallel(keep.stamps[lh_sorted_idx[j] + 1])])

\* C16: while a worker task of apply_kalman_filter or apply_stamp_filter is
\* outstanding, no step changes the aggregate (and so none changes the
\* workers' input curves and stamps, which it holds); and the aggregate each
\* stage returns is the one got by applying verdict i to trajectory i,
\* whatever the order in which the tasks completed.
C16_WorkersIsolated ==
    /\ [][TaskOutstanding => keep' = keep]_vars
    /\ [](KalmanReturned => keep = VerdictsByOrdinal)
    /\ [](StampReturned => keep.final_results = ShapesByOrdinal)

C16_Witness ==
    /\ pc = "kalman_pool"
    /\ Len(pool) = 2
    /\ pool[1] = <<>>
    /\ pool[2] # <<>>
    /\ Verdict(1) # Verdict(2)

(***************************************************************************)
(* Properties of the kept indices (checked under SpecFilter)               *)
(***************************************************************************)
NotRejected == Returned /\ res[1].ret # Reject

\* the original curve indices of the usable samples
UsableIdx == FluxIdx(arg.psi_values, arg.phi_values)

\* C17: the returned indices are the forward pass's set when it has at
\* least as many indices as the backward pass's, the backward pass's
\* otherwise; backward position r over the N usable samples stands for
\* usable sample (N-1)-r; every returned index is the original curve index
\* of that usable sample, so the indices are within the curve and distinct.
C17_ChosenPass ==
    NotRejected =>
        LET fwd == res[1].passes.keep_idx
            bwd == res[1].passes.keep_idx_back
            idx == res[1].ret.idx
        IN  /\ res[1].passes.usable = Len(UsableIdx)
            /\ idx = IF Len(fwd) >= Len(bwd)
                     THEN [n \in 1..Len(fwd) |-> UsableIdx[fwd[n] + 1]]
                     ELSE [n \in 1..Len(bwd) |-> UsableIdx[(Len(UsableIdx) - 1) - bwd[n] + 1]]
            /\ \A n \in 1..Len(idx) : idx[n] \in 0..Len(arg.psi_values) - 1
            /\ \A n, o \in 1..Len(idx) : n # o => idx[n] # idx[o]

C17_Witness ==
    /\ NotRejected
    /\ Len(res[1].passes.keep_idx) < Len(res[1].passes.keep_idx_back)
    /\ Len(UsableIdx) < Len(arg.psi_values)
    /\ Len(res[1].ret.idx) = 2

\* C18 as stated: no sample whose phi value is 0 is among the kept indices,
\* whatever its psi value.
C18_ZeroPhiExcluded ==
    NotRejected =>
        \A n \in 1..Len(res[1].ret.idx) : arg.phi_values[res[1].ret.idx[n] + 1] # 0

\* C19 as stated: the kept indices of a non-reject verdict are in strictly
\* increasing order, whichever pass was chosen.
C19_IndicesAscending ==
    NotRejected =>
        \A n \in 1..Len(res[1].ret.idx) - 1 : res[1].ret.idx[n] < res[1].ret.idx[n + 1]

====
